---- MODULE Spec2Model ----
(***************************************************************************)
(* A model of maven_downloader: the placeholder substitution, the cache    *)
(* path sanitizers, the equality and hashing of package objects, version   *)
(* resolution, get_dependencies and the recursive dependency walker.       *)
(* Python strings are TLA+ strings; positions are Python's 0-based ones.   *)
(***************************************************************************)
EXTENDS Bags, FiniteSets, Integers, Sequences, TLC

VARIABLES
    sProps,     \* parse_property_value: the properties dict
    sInput,     \* parse_property_value: the text argument of the first call
    sText,      \* parse_property_value: the local variable text
    sPc,        \* parse_property_value: "loop", "done" or "overflow"
    sRound,     \* 1: first call, 2: the call on the first call's result
    sFirst      \* the value the first call returned

VARIABLES
    qIn,        \* the argument of a _quote_*_path call
    qOp,        \* the sanitizer called last: "none", "group", "artifact", "version"
    qOut        \* the value that call returned

VARIABLES
    pGroupId,   \* the groupId argument of the cache path functions
    pArtifactId, \* the artifactId argument
    pVersion,   \* the version argument
    pOp,        \* the function called last: "none", "metadata", "pom", "jar"
    pPath       \* the path that call returned

VARIABLES
    eA,         \* a MavenPackageMeta object: the left operand
    eB,         \* a MavenPackageMeta object: the right operand
    eEq,        \* <<what eA == eB returned>>, <<>> before the comparison
    eHash,      \* <<hash(eA), hash(eB)>>, <<>> before hash is called
    eVerA,      \* the version of the MavenPackage made of eA
    eVerB,      \* the version of the MavenPackage made of eB
    eRel        \* <<the comparisons of the objects in both orders and with
                \* themselves, and their hashes>>, <<>> before they are made

VARIABLES
    vArg,       \* the version argument the MavenPackage was constructed with
    v_version,  \* the object's field _version
    vUnsure,    \* the object's field _version_is_unsure
    vLatest,    \* the text of the metadata document's latest element
    vRelease,   \* the text of the metadata document's release element
    vRead,      \* the values the version property returned, in order
    vQueries    \* the calls of get_latest_version / get_release_version made

VARIABLES
    dSelf,      \* the MavenPackage get_dependencies is called on
    dPom,       \* its descriptor, as parsed by _get_pom
    dRelease,   \* what get_release_version returns for its MavenPackageMeta
    dDeps       \* <<the list get_dependencies returned>>, <<>> before the call

VARIABLES
    wRepo,      \* the remote repository: the descriptor of each package it has
    wProcessed, \* the set the caller passed as processed, in insertion order
    wSeed,      \* what that set held when the caller passed it
    wDefault,   \* the set object that is the default value of processed
    wStack,     \* the active calls of the walker, the outermost first
    wPc,        \* "walking", "returned", "fetch_error" or "recursion_error"
    wCalls      \* the packages get_dependencies was called on, in order

VARIABLES
    cObjs,      \* the MavenPackage objects of the run (each with its own meta)
    cPaths,     \* for each object, the cache paths of its documents
    cFiles,     \* the cache directory: the content of each file that exists
    cFirst,     \* for each file, the content it had when it first existed
    cMetaCache, \* for each object, the field _metadata_cache of its meta
    cPomCache,  \* for each object, its field _pom_cache
    cLast,      \* the last call: what it was, what it fetched and returned
    cJarLog,    \* the calls of cache_jar, in order
    cMetaFetched, \* for each object, what each fetch of its metadata returned
    cOps        \* the number of calls made

substVars == <<sProps, sInput, sText, sPc, sRound, sFirst>>

quoteVars == <<qIn, qOp, qOut>>

pathVars == <<pGroupId, pArtifactId, pVersion, pOp, pPath>>

eqVars == <<eA, eB, eEq, eHash, eVerA, eVerB, eRel>>

verVars == <<vArg, v_version, vUnsure, vLatest, vRelease, vRead, vQueries>>

depsVars == <<dSelf, dPom, dRelease, dDeps>>

walkVars == <<wRepo, wProcessed, wSeed, wDefault, wStack, wPc, wCalls>>

cacheVars == <<cObjs, cPaths, cFiles, cFirst, cMetaCache, cPomCache, cLast, cJarLog,
               cMetaFetched, cOps>>

\* what the operations of one component leave alone
substOthers == <<quoteVars, pathVars, eqVars, verVars, depsVars, walkVars, cacheVars>>

quoteOthers == <<substVars, pathVars, eqVars, verVars, depsVars, walkVars, cacheVars>>

pathOthers == <<substVars, quoteVars, eqVars, verVars, depsVars, walkVars, cacheVars>>

eqOthers == <<substVars, quoteVars, pathVars, verVars, depsVars, walkVars, cacheVars>>

verOthers == <<substVars, quoteVars, pathVars, eqVars, depsVars, walkVars, cacheVars>>

depsOthers == <<substVars, quoteVars, pathVars, eqVars, verVars, walkVars, cacheVars>>

walkOthers == <<substVars, quoteVars, pathVars, eqVars, verVars, depsVars, cacheVars>>

cacheOthers == <<substVars, quoteVars, pathVars, eqVars, verVars, depsVars, walkVars>>

vars == <<sProps, sInput, sText, sPc, sRound, sFirst,
          qIn, qOp, qOut,
          pGroupId, pArtifactId, pVersion, pOp, pPath,
          eA, eB, eEq, eHash, eVerA, eVerB, eRel,
          vArg, v_version, vUnsure, vLatest, vRelease, vRead, vQueries,
          dSelf, dPom, dRelease, dDeps,
          wRepo, wProcessed, wSeed, wDefault, wStack, wPc, wCalls,
          cObjs, cPaths, cFiles, cFirst, cMetaCache, cPomCache, cLast, cJarLog,
          cMetaFetched, cOps>>

(***************************************************************************)
(* Bounds.                                                                 *)
(***************************************************************************)
MaxInputLen == 4
MaxQuoteLen == 3
MaxReads == 2
RecursionLimit == 4
MaxPathNameLen == 2
MaxTextLen == 8
RefFuel == 6
SubstFuel == 6

(***************************************************************************)
(* Python's str operations.                                                *)
(***************************************************************************)
Min(a, b) == IF a < b THEN a ELSE b

Max(a, b) == IF a > b THEN a ELSE b

\* text[lo:hi], with Python's treatment of negative and out-of-range bounds
Slice(text, lo, hi) ==
    LET n == Len(text)
        l == IF lo < 0 THEN Max(lo + n, 0) ELSE Min(lo, n)
        h == IF hi < 0 THEN Max(hi + n, 0) ELSE Min(hi, n)
    IN  IF l >= h THEN "" ELSE SubSeq(text, l + 1, h)

\* text[i:].startswith(pat), i 0-based
HasAt(text, pat, i) ==
    /\ i >= 0
    /\ i + Len(pat) <= Len(text)
    /\ SubSeq(text, i + 1, i + Len(pat)) = pat

\* text.find(pat): the least position of pat in text, or -1
Find(text, pat) ==
    LET hits == {i \in 0..(Len(text) - Len(pat)) : HasAt(text, pat, i)}
    IN  IF hits = {} THEN -1
        ELSE CHOOSE i \in hits : \A j \in hits : i <= j

\* text.replace(old, new): left to right, non-overlapping; old is not empty
RECURSIVE Replace(_, _, _)
Replace(text, old, new) ==
    IF Len(text) < Len(old) THEN text
    ELSE IF HasAt(text, old, 0)
         THEN new \o Replace(Slice(text, Len(old), Len(text)), old, new)
         ELSE SubSeq(text, 1, 1) \o Replace(Slice(text, 1, Len(text)), old, new)

\* the strings over an alphabet of length at most n
RECURSIVE Strings(_, _)
Strings(alphabet, n) ==
    IF n = 0 THEN {""}
    ELSE LET shorter == Strings(alphabet, n - 1)
         IN  shorter \cup {s \o c : s \in shorter, c \in alphabet}

(***************************************************************************)
(* parse_property_value.                                                   *)
(***************************************************************************)
\* properties.get(name, "")
DictGet(properties, name) ==
    IF name \in DOMAIN properties THEN properties[name] ELSE ""

\* the loop condition: idx >= 0 where idx = text.find("${")
HasPlaceholderFromOne(text) == Find(text, "${") > 0

HasPlaceholder(text) == Find(text, "${") >= 0

\* one run of the loop body
SubstStep(properties, text) ==
    LET idx == Find(text, "${")
        end == Find(text, "}")
        name == Slice(text, idx + 2, end)
        replacement == DictGet(properties, name)
        text_head == Slice(text, 0, idx)
        text_tail == Slice(text, end + 1, Len(text))
    IN  text_head \o replacement \o text_tail

\* the function as a whole, cut off after fuel runs of the loop body
RECURSIVE parse_property_value_n(_, _, _)
parse_property_value_n(properties, text, fuel) ==
    IF ~HasPlaceholder(text) \/ fuel = 0 THEN text
    ELSE parse_property_value_n(properties, SubstStep(properties, text), fuel - 1)

EmptyDict == [n \in {} |-> ""]

PropTables ==
    { EmptyDict,
      [n \in {"x"} |-> "1"],
      [n \in {"x", "y"} |-> IF n = "x" THEN "${y}" ELSE "2"],
      [n \in {"x"} |-> "${x}"],
      [n \in {"", "x"} |-> IF n = "" THEN "a" ELSE "x}"] }

SubstAlphabet == {"a", "x", "$", "{", "}"}

SubstTexts ==
    Strings(SubstAlphabet, MaxInputLen) \cup {"a${x}b", "a${missing}b", "${x}${y}"}

\* one iteration of the while loop
SubstIterate ==
    /\ sPc = "loop"
    /\ HasPlaceholder(sText)
    /\ Len(SubstStep(sProps, sText)) <= MaxTextLen
    /\ sText' = SubstStep(sProps, sText)
    /\ UNCHANGED <<sProps, sInput, sPc, sRound, sFirst, substOthers>>

\* the text outgrows the bound of the model
SubstOverflow ==
    /\ sPc = "loop"
    /\ HasPlaceholder(sText)
    /\ Len(SubstStep(sProps, sText)) > MaxTextLen
    /\ sPc' = "overflow"
    /\ UNCHANGED <<sProps, sInput, sText, sRound, sFirst, substOthers>>

\* the loop ends and the function returns text
SubstReturn ==
    /\ sPc = "loop"
    /\ ~HasPlaceholder(sText)
    /\ sPc' = "done"
    /\ sFirst' = IF sRound = 1 THEN sText ELSE sFirst
    /\ UNCHANGED <<sProps, sInput, sText, sRound, substOthers>>

\* the caller passes the returned value to the function again
SubstAgain ==
    /\ sPc = "done"
    /\ sRound = 1
    /\ sRound' = 2
    /\ sPc' = "loop"
    /\ UNCHANGED <<sProps, sInput, sText, sFirst, substOthers>>

NextSubst ==
    \/ SubstIterate
    \/ SubstOverflow
    \/ SubstReturn
    \/ SubstAgain

(***************************************************************************)
(* The substitution the documentation describes: the leftmost "${" and the *)
(* first "}" after it.                                                     *)
(***************************************************************************)
\* the position of the first "}" after position idx, or -1
FindAfter(text, pat, idx) ==
    LET rest == Find(Slice(text, idx, Len(text)), pat)
    IN  IF rest < 0 THEN -1 ELSE idx + rest

RefStep(properties, text) ==
    LET idx == Find(text, "${")
        end == FindAfter(text, "}", idx)
    IN  Slice(text, 0, idx)
        \o DictGet(properties, Slice(text, idx + 2, end))
        \o Slice(text, end + 1, Len(text))

RECURSIVE RefSubst(_, _, _)
RefSubst(properties, text, fuel) ==
    IF ~(Find(text, "${") >= 0) \/ fuel = 0 THEN text
    ELSE RefSubst(properties, RefStep(properties, text), fuel - 1)

\* the reference reaches a text without "${" within the bounds of the model
RECURSIVE RefDefined(_, _, _)
RefDefined(properties, text, fuel) ==
    IF Find(text, "${") < 0 THEN TRUE
    ELSE /\ fuel > 0
         /\ FindAfter(text, "}", Find(text, "${")) >= 0
         /\ Len(RefStep(properties, text)) <= MaxTextLen
         /\ RefDefined(properties, RefStep(properties, text), fuel - 1)

\* C7: on every table and text on which the reference substitution is
\* defined, parse_property_value returns, and returns the reference's result
C7_EqualsReference ==
    RefDefined(sProps, sInput, RefFuel)
        => <>(sPc = "done" /\ sFirst = RefSubst(sProps, sInput, RefFuel))

\* C19: parse_property_value terminates for every table and text: the loop
\* comes to its end (a text that outgrows the bound of the model is not held
\* against the claim)
C19_Terminates == <>(sPc \in {"done", "overflow"})

\* C8: the value parse_property_value returns contains no "${", and the
\* function applied to it returns it unchanged
C8_Idempotent ==
    /\ sPc = "done" => Find(sText, "${") = -1
    /\ (sPc = "done" /\ sRound = 2) => sText = sFirst

C8_Witness ==
    /\ sPc = "done"
    /\ sRound = 2
    /\ sProps = [n \in {"x"} |-> "1"]
    /\ sInput = "a${x}b"
    /\ sText = "a1b"

(***************************************************************************)
(* The cache path sanitizers (posix build: os.path.sep is "/").            *)
(***************************************************************************)
Sep == "/"

_quote_groupId_path(groupId) ==
    LET g1 == Replace(groupId, "..", "")
        g2 == Replace(g1, ".", Sep)
    IN  Replace(Replace(Replace(g2, ":", ""), "?", ""), "=", "")

_quote_artifactId_path(artifactId) ==
    LET a1 == Replace(artifactId, "..", "")
        a2 == Replace(Replace(a1, "/", ""), "\\", "")
    IN  Replace(Replace(Replace(a2, ":", ""), "?", ""), "=", "")

_quote_version_path(version) ==
    LET v1 == Replace(Replace(Replace(version, "..", ""), "/", ""), "\\", "")
    IN  Replace(Replace(Replace(v1, ":", ""), "?", ""), "=", "")

QuoteAlphabet == {".", "/", "\\", ":", "?", "=", "a"}

QuoteGroupId ==
    /\ qOp' = "group"
    /\ qOut' = _quote_groupId_path(qIn)
    /\ UNCHANGED <<qIn, quoteOthers>>

QuoteArtifactId ==
    /\ qOp' = "artifact"
    /\ qOut' = _quote_artifactId_path(qIn)
    /\ UNCHANGED <<qIn, quoteOthers>>

QuoteVersion ==
    /\ qOp' = "version"
    /\ qOut' = _quote_version_path(qIn)
    /\ UNCHANGED <<qIn, quoteOthers>>

NextQuote ==
    \/ QuoteGroupId
    \/ QuoteArtifactId
    \/ QuoteVersion

\* pat in text
Contains(text, pat) == Find(text, pat) >= 0

\* C9: the sanitized artifact and version segments contain none of "..",
\* "/", "\", ":", "?", "="; the sanitized group segment contains none of
\* "..", ":", "?", "="
C9_SanitizedSegments ==
    /\ qOp \in {"artifact", "version"}
        => \A bad \in {"..", "/", "\\", ":", "?", "="} : ~Contains(qOut, bad)
    /\ qOp = "group"
        => \A bad \in {"..", ":", "?", "="} : ~Contains(qOut, bad)

(***************************************************************************)
(* The cache paths (posix build).                                          *)
(***************************************************************************)
\* os.getcwd() of the run
Cwd == "/w"

\* os.path.join(a, b)
PathJoin2(a, b) ==
    IF HasAt(b, Sep, 0) THEN b
    ELSE IF a = "" \/ HasAt(a, Sep, Len(a) - 1) THEN a \o b
    ELSE a \o Sep \o b

\* os.path.join(a, b, c, ...)
RECURSIVE PathJoin(_, _)
PathJoin(a, parts) ==
    IF parts = <<>> THEN a
    ELSE PathJoin(PathJoin2(a, Head(parts)), Tail(parts))

CACHE_DIR == PathJoin(Cwd, <<".mvn_cache">>)

CACHE_METADATA_DIR == PathJoin(CACHE_DIR, <<"metadata">>)

CACHE_POM_DIR == PathJoin(CACHE_DIR, <<"pom">>)

CACHE_JAR_DIR == PathJoin(CACHE_DIR, <<"jar">>)

get_metadata_cache_path(groupId, artifactId) ==
    LET g == _quote_groupId_path(groupId)
        a == _quote_artifactId_path(artifactId)
    IN  PathJoin(CACHE_METADATA_DIR, <<g, a, "maven-metadata.xml">>)

get_pom_cache_path(groupId, artifactId, version) ==
    LET g == _quote_groupId_path(groupId)
        a == _quote_artifactId_path(artifactId)
        v == _quote_version_path(version)
    IN  PathJoin(CACHE_POM_DIR, <<g, a, a \o "-" \o v \o ".pom">>)

get_jar_cache_path(groupId, artifactId, version, postfix) ==
    LET a == _quote_artifactId_path(artifactId)
        v == _quote_version_path(version)
    IN  PathJoin(CACHE_JAR_DIR, <<a \o "-" \o v \o postfix \o ".jar">>)

PathAlphabet == {".", "/", "a"}

GetMetadataCachePath ==
    /\ pOp' = "metadata"
    /\ pPath' = get_metadata_cache_path(pGroupId, pArtifactId)
    /\ UNCHANGED <<pGroupId, pArtifactId, pVersion, pathOthers>>

GetPomCachePath ==
    /\ pOp' = "pom"
    /\ pPath' = get_pom_cache_path(pGroupId, pArtifactId, pVersion)
    /\ UNCHANGED <<pGroupId, pArtifactId, pVersion, pathOthers>>

GetJarCachePath ==
    /\ \E postfix \in {"", "-javadoc", "-sources"} :
          /\ pOp' = "jar"
          /\ pPath' = get_jar_cache_path(pGroupId, pArtifactId, pVersion, postfix)
    /\ UNCHANGED <<pGroupId, pArtifactId, pVersion, pathOthers>>

NextPath ==
    \/ GetMetadataCachePath
    \/ GetPomCachePath
    \/ GetJarCachePath

\* the components of a path between its separators
RECURSIVE SplitPath(_)
SplitPath(path) ==
    LET i == Find(path, Sep)
    IN  IF i < 0 THEN <<path>>
        ELSE <<Slice(path, 0, i)>> \o SplitPath(Slice(path, i + 1, Len(path)))

\* the directory entries from the file system root that a path leads
\* through, "" and "." dropped and ".." stepping up
RECURSIVE Walk(_, _)
Walk(done, comps) ==
    IF comps = <<>> THEN done
    ELSE LET c == Head(comps)
         IN  IF c \in {"", "."} THEN Walk(done, Tail(comps))
             ELSE IF c = ".."
                  THEN Walk(IF done = <<>> THEN done
                            ELSE SubSeq(done, 1, Len(done) - 1), Tail(comps))
                  ELSE Walk(Append(done, c), Tail(comps))

\* the location an absolute path, or one relative to Cwd, denotes
Location(path) ==
    IF HasAt(path, Sep, 0) THEN Walk(<<>>, SplitPath(path))
    ELSE Walk(<<>>, SplitPath(PathJoin2(Cwd, path)))

InsideCacheRoot(path) ==
    LET root == Location(CACHE_DIR)
        loc == Location(path)
    IN  /\ Len(loc) > Len(root)
        /\ SubSeq(loc, 1, Len(root)) = root

\* C10: every path the three cache path functions compute denotes a
\* location inside the cache root directory
C10_PathInsideCacheRoot ==
    pOp \in {"metadata", "pom", "jar"} => InsideCacheRoot(pPath)

(***************************************************************************)
(* MavenPackageMeta: __eq__ and __hash__.                                  *)
(***************************************************************************)
DEFAULT_REPO_BASE == "https://repo1.maven.org/maven2"

\* the object MavenPackageMeta(groupId, artifactId, repo)
MavenPackageMeta(groupId, artifactId, repo) ==
    [groupId |-> groupId, artifactId |-> artifactId, repo |-> repo]

\* hash() of a str: equal strings have equal hashes and, collisions of the
\* 64-bit sums aside, sums of hashes are equal only for the same strings
HashStr(str) == SetToBag({<<str>>})

\* hash(None): a value that is the hash of no str
HashNone == SetToBag({<<>>})

\* MavenPackageMeta.__eq__(self, value) for a MavenPackageMeta value
MetaEq(self, value) ==
    (self.groupId = value.groupId) /\ (self.artifactId = value.groupId)

\* MavenPackageMeta.__hash__(self)
MetaHash(self) == HashStr(self.groupId) (+) HashStr(self.artifactId)

MetaObjects ==
    {MavenPackageMeta(g, a, r) :
        g \in {"g", "h", "a"}, a \in {"g", "a", "b"},
        r \in {DEFAULT_REPO_BASE, "https://mirror"}}

\* eA == eB
CompareMeta ==
    /\ eEq = <<>>
    /\ eEq' = <<MetaEq(eA, eB)>>
    /\ UNCHANGED <<eA, eB, eHash, eVerA, eVerB, eRel, eqOthers>>

\* hash(eA), hash(eB)
HashMeta ==
    /\ eHash = <<>>
    /\ eHash' = <<MetaHash(eA), MetaHash(eB)>>
    /\ UNCHANGED <<eA, eB, eEq, eVerA, eVerB, eRel, eqOthers>>

\* C3: two MavenPackageMeta objects compare equal iff they have the same
\* group and the same artifact, and two equal objects have the same hash
C3_MetaEquality ==
    eEq # <<>> =>
        /\ eEq[1] <=> (eA.groupId = eB.groupId /\ eA.artifactId = eB.artifactId)
        /\ (eEq[1] /\ eHash # <<>>) => eHash[1] = eHash[2]

(***************************************************************************)
(* MavenPackage: the constructor and the version property.                 *)
(***************************************************************************)
DEFAULT_VERSION == "release"

\* an optional str: None, or Some(str)
None == <<>>

Some(str) == <<str>>

\* the lower-case form of one character
LowerChar(c) ==
    CASE c = "A" -> "a" [] c = "B" -> "b" [] c = "C" -> "c" [] c = "D" -> "d"
      [] c = "E" -> "e" [] c = "F" -> "f" [] c = "G" -> "g" [] c = "H" -> "h"
      [] c = "I" -> "i" [] c = "J" -> "j" [] c = "K" -> "k" [] c = "L" -> "l"
      [] c = "M" -> "m" [] c = "N" -> "n" [] c = "O" -> "o" [] c = "P" -> "p"
      [] c = "Q" -> "q" [] c = "R" -> "r" [] c = "S" -> "s" [] c = "T" -> "t"
      [] c = "U" -> "u" [] c = "V" -> "v" [] c = "W" -> "w" [] c = "X" -> "x"
      [] c = "Y" -> "y" [] c = "Z" -> "z" [] OTHER -> c

\* str.lower()
RECURSIVE Lower(_)
Lower(str) ==
    IF str = "" THEN ""
    ELSE LowerChar(SubSeq(str, 1, 1)) \o Lower(Slice(str, 1, Len(str)))

Whitespace == {" ", "\t", "\n"}

\* str.strip()
RECURSIVE Strip(_)
Strip(str) ==
    IF str = "" THEN ""
    ELSE IF SubSeq(str, 1, 1) \in Whitespace
         THEN Strip(Slice(str, 1, Len(str)))
    ELSE IF SubSeq(str, Len(str), Len(str)) \in Whitespace
         THEN Strip(Slice(str, 0, Len(str) - 1))
    ELSE str

\* the constructor's test for an unsure version (version is None or Some(str))
VersionIsUnsure(version) ==
    \/ version = None
    \/ Strip(Lower(version[1])) \in {"latest", "release", DEFAULT_VERSION, ""}

\* _get_version: the new value of _version, which is also the value returned;
\* latest and release are what get_latest_version and get_release_version
\* return (None when the metadata document has no such element)
GetVersion(_version, latest, release) ==
    LET v == IF _version = None \/ Len(Strip(_version[1])) <= 0
             THEN Some(DEFAULT_VERSION) ELSE _version
    IN  IF v = Some("latest") THEN latest
        ELSE IF v = Some("release") THEN release
        ELSE v

\* the number of calls of the metadata resolver that _get_version makes
GetVersionQueries(_version) ==
    LET v == IF _version = None \/ Len(Strip(_version[1])) <= 0
             THEN Some(DEFAULT_VERSION) ELSE _version
    IN  IF v \in {Some("latest"), Some("release")} THEN 1 ELSE 0

VersionArgs ==
    {None} \cup {Some(str) : str \in
        {"", " ", "latest", "LATEST", "Latest", " latest ", "release",
         "RELEASE", " release", "1", "2", "1.0-release"}}

MetadataAnswers == {None, Some("1"), Some("2")}

\* a read of the version property
ReadVersion ==
    /\ Len(vRead) < MaxReads
    /\ v_version' = GetVersion(v_version, vLatest, vRelease)
    /\ vRead' = Append(vRead, v_version')
    /\ vQueries' = vQueries + GetVersionQueries(v_version)
    /\ UNCHANGED <<vArg, vUnsure, vLatest, vRelease, verOthers>>

NextVer ==
    \/ ReadVersion

\* C14: the resolution of a symbolic version is memoized: after the first
\* read of the version every later read returns the same value and makes no
\* further query to the metadata resolver
C14_ResolutionMemoized ==
    [][(Len(vRead) >= 1 /\ Len(vRead') = Len(vRead) + 1)
            => /\ vRead'[Len(vRead')] = vRead[1]
               /\ vQueries' = vQueries]_vars

\* C4: reading the version property never returns a value that the
\* constructor classifies as unsure
C4_VersionNeverUnsure ==
    \A i \in 1..Len(vRead) : ~VersionIsUnsure(vRead[i])

(***************************************************************************)
(* MavenPackage.get_dependencies.                                          *)
(***************************************************************************)
DEFAULT_SCOPE == "compile"

DEFAULT_OPTIONAL == FALSE

\* the object MavenPackage(meta, version); version is None or Some(str)
MavenPackage(meta, version) ==
    [meta |-> meta, _version |-> version,
     _version_is_unsure |-> VersionIsUnsure(version)]

\* the object MavenDependencyPackage(meta, version) after its fields _scope
\* and _optional are set
MavenDependencyPackage(meta, version, scope, optional) ==
    [meta |-> meta, _version |-> version,
     _version_is_unsure |-> VersionIsUnsure(version),
     _scope |-> scope, _optional |-> optional]

\* the value of a dict after dict[key] = value
DictSet(dict, key, value) ==
    [k \in DOMAIN dict \cup {key} |-> IF k = key THEN value ELSE dict[k]]

\* the value of a dict after dict[k] = over[k] for every key k of over
DictUpdate(dict, over) ==
    [k \in DOMAIN dict \cup DOMAIN over |->
        IF k \in DOMAIN over THEN over[k] ELSE dict[k]]

\* the properties dict of get_dependencies: self's own coordinate, then the
\* descriptor's properties element and its children, their texts stripped.
\* pom.properties is None when the descriptor has no properties element
PropertiesOf(self, pom) ==
    LET own == DictSet(DictSet(DictSet(EmptyDict,
                   "project.version", self._version[1]),
                   "project.groupId", self.meta.groupId),
                   "project.artifactId", self.meta.artifactId)
    IN  IF pom.properties = None THEN own
        ELSE LET declared == pom.properties[1]
             IN  DictUpdate(DictSet(own, "properties", ""),
                            [k \in DOMAIN declared |-> Strip(declared[k])])

\* parse_property_value on a text on which its loop ends
parse_property_value(properties, text) ==
    parse_property_value_n(properties, text, SubstFuel)

\* the version of a dependency entry whose substituted group is groupId
DepVersionNoInherit(self, properties, groupId, entry) ==
    IF entry.version # None
    THEN Some(parse_property_value(properties, entry.version[1]))
    ELSE Some(DEFAULT_VERSION)

DepVersion(self, properties, groupId, entry) ==
    IF entry.version # None
    THEN Some(parse_property_value(properties, entry.version[1]))
    ELSE IF groupId = self.meta.groupId THEN self._version
    ELSE Some(DEFAULT_VERSION)

\* the package made from one dependency element
DepPackage(self, properties, entry) ==
    LET groupId == parse_property_value(properties, entry.groupId)
        artifactId == parse_property_value(properties, entry.artifactId)
        version == DepVersion(self, properties, groupId, entry)
        scope == IF entry.scope # None THEN entry.scope[1] ELSE DEFAULT_SCOPE
        optional == IF entry.optional # None
                    THEN Lower(entry.optional[1]) = "true"
                    ELSE DEFAULT_OPTIONAL
    IN  MavenDependencyPackage(
            MavenPackageMeta(groupId, artifactId, self.meta.repo),
            version, scope, optional)

\* the list get_dependencies returns; self is the object after _get_pom has
\* resolved its version, pom its parsed descriptor
GetDependencies(self, pom) ==
    LET properties == PropertiesOf(self, pom)
    IN  [i \in 1..Len(pom.dependencies) |->
            DepPackage(self, properties, pom.dependencies[i])]

\* the object after _get_version has run on it
Resolved(self, latest, release) ==
    [self EXCEPT !._version = GetVersion(self._version, latest, release)]

\* a dependency element: the texts of its children, None for a child that
\* is not there
DepEntry(groupId, artifactId, version, scope, optional) ==
    [groupId |-> groupId, artifactId |-> artifactId, version |-> version,
     scope |-> scope, optional |-> optional]

DepsEntries ==
    {DepEntry(g, a, v, so[1], so[2]) :
        g \in {"g", "h", "${project.groupId}", "${grp}"},
        a \in {"a", "${project.artifactId}-x"},
        v \in {None, Some("2"), Some("${project.version}"), Some("${v}"),
               Some("release")},
        so \in {<<None, None>>, <<Some("test"), None>>,
                <<Some("Compile"), Some("TRUE")>>}}

DepsProperties ==
    {None,
     Some([k \in {"v", "grp"} |-> IF k = "v" THEN " 3 " ELSE "g"]),
     Some([k \in {"project.groupId", "v"} |->
              IF k = "v" THEN "${project.version}" ELSE "h"])}

\* dSelf.get_dependencies(): _get_pom resolves the version and parses the
\* descriptor, then the dependency elements are turned into packages
CallGetDependencies ==
    /\ dDeps = <<>>
    /\ dSelf' = Resolved(dSelf, None, dRelease)
    /\ dDeps' = <<GetDependencies(dSelf', dPom)>>
    /\ UNCHANGED <<dPom, dRelease, depsOthers>>

NextDeps ==
    \/ CallGetDependencies

\* the version C6 describes for the i-th dependency element
C6_ExpectedVersion(properties, entry) ==
    IF entry.version # None
    THEN Some(RefSubst(properties, entry.version[1], RefFuel))
    ELSE IF RefSubst(properties, entry.groupId, RefFuel) = dSelf.meta.groupId
         THEN dSelf._version
    ELSE Some("release")

\* C6: every returned dependency has the substituted group and artifact of
\* its element; its version is the element's substituted version, or, with
\* no version element, the parent's resolved version when the substituted
\* group is the parent's group and "release" otherwise
C6_DependencyVersions ==
    dDeps # <<>> =>
        LET properties == PropertiesOf(dSelf, dPom)
            deps == dDeps[1]
        IN  /\ Len(deps) = Len(dPom.dependencies)
            /\ \A i \in 1..Len(deps) :
                 LET entry == dPom.dependencies[i]
                 IN  /\ deps[i].meta.groupId =
                            RefSubst(properties, entry.groupId, RefFuel)
                     /\ deps[i].meta.artifactId =
                            RefSubst(properties, entry.artifactId, RefFuel)
                     /\ deps[i]._version = C6_ExpectedVersion(properties, entry)

\* a parent constructed with the symbolic version, whose same-group
\* dependency without a version element got the resolved version, and whose
\* other-group dependency without a version element got "release"
C6_Witness ==
    /\ dDeps # <<>>
    /\ dSelf.meta.groupId = "g"
    /\ dSelf._version = Some("2")
    /\ dPom.properties = None
    /\ Len(dPom.dependencies) = 2
    /\ dPom.dependencies[1] = DepEntry("h", "${project.artifactId}-x", None, None, None)
    /\ dDeps[1][1].meta.artifactId = "a-x"
    /\ dDeps[1][1]._version = Some("release")
    /\ dDeps[1][2]._version = Some("2")

(***************************************************************************)
(* MavenPackage: __eq__, __hash__ and membership in a set.                 *)
(***************************************************************************)
\* MavenPackage.__eq__(self, value) for a MavenPackage value; both objects
\* have been through _get_version
PackageEq(self, value) ==
    MetaEq(self.meta, value.meta) /\ (self._version = value._version)

\* MavenPackage.__hash__(self) of an object that has been through
\* _get_version; the hash of None is a value of its own
PackageHash(self) ==
    MetaHash(self.meta)
        (+) (IF self._version = None THEN HashNone ELSE HashStr(self._version[1]))

\* pkg in processed: an element with the hash of pkg that compares equal to
\* pkg (no element of the set is the object pkg itself: get_dependencies
\* makes new objects)
InSet(pkg, processed) ==
    \E k \in 1..Len(processed) :
        /\ PackageHash(processed[k]) = PackageHash(pkg)
        /\ PackageEq(processed[k], pkg)

\* a == b, b == a, a == a, b == b, hash(a) and hash(b), for two
\* MavenPackageMeta objects
MetaRelation(a, b) ==
    [ab |-> MetaEq(a, b), ba |-> MetaEq(b, a), aa |-> MetaEq(a, a),
     bb |-> MetaEq(b, b), hashA |-> MetaHash(a), hashB |-> MetaHash(b)]

\* the same for two MavenPackage objects
PackageRelation(a, b) ==
    [ab |-> PackageEq(a, b), ba |-> PackageEq(b, a), aa |-> PackageEq(a, a),
     bb |-> PackageEq(b, b), hashA |-> PackageHash(a), hashB |-> PackageHash(b)]

\* the comparisons and hashes of eA and eB, and of the packages made of them
CompareBothWays ==
    /\ eRel = <<>>
    /\ eRel' = <<[meta |-> MetaRelation(eA, eB),
                  package |-> PackageRelation(MavenPackage(eA, eVerA),
                                              MavenPackage(eB, eVerB))]>>
    /\ UNCHANGED <<eA, eB, eEq, eHash, eVerA, eVerB, eqOthers>>

NextEq ==
    \/ CompareMeta
    \/ HashMeta
    \/ CompareBothWays

\* a == a, a == b implies b == a, and a == b implies hash(a) == hash(b)
EquivalenceWithHash(r) ==
    /\ r.aa /\ r.bb
    /\ r.ab <=> r.ba
    /\ r.ab => (r.hashA = r.hashB)

\* C20: the equality of MavenPackageMeta and the equality of MavenPackage
\* are equivalence relations consistent with hashing: a == a, a == b implies
\* b == a, and a == b implies hash(a) == hash(b)
C20_EqualityLaws ==
    eRel # <<>> =>
        /\ EquivalenceWithHash(eRel[1].meta)
        /\ EquivalenceWithHash(eRel[1].package)

(***************************************************************************)
(* dump_dependencies / walk_dependencies: the two functions differ only in *)
(* what they print.                                                        *)
(***************************************************************************)
\* what get_latest_version and get_release_version return for every
\* package of the repository
WalkLatest == Some("2")

WalkRelease == Some("1")

\* the key of a package in the repository
MetaKey(meta) == <<meta.groupId, meta.artifactId>>

\* a call walk_dependencies(pkg, indent, processed); deps is <<>> until
\* get_dependencies has returned, then <<the list>>, i the position of the
\* for loop in it; processed names the set object: "caller" or "default"
Frame(pkg, processed) ==
    [pkg |-> pkg, deps |-> <<>>, i |-> 1, processed |-> processed]

Top == wStack[Len(wStack)]

\* the dependency the for loop of the innermost call is at
CurDep == Top.deps[1][Top.i]

\* the set object the innermost call holds in processed
CurSet == IF Top.processed = "caller" THEN wProcessed ELSE wDefault

\* the stack with the innermost call replaced
WithTop(frame) == [wStack EXCEPT ![Len(wStack)] = frame]

\* the set a recursive call is given: no argument is passed for processed,
\* so the call gets the default object
RecursiveProcessed(frame) == "default"

\* the test that guards the recursion, after the scope and optional tests
NotProcessed(dep, processed) == ~InSet(dep, processed)

\* dep.scope.lower() == "compile" and (not dep.optional)
ScopeEligible(dep) == Lower(dep._scope) = "compile" /\ ~dep._optional

InLoop ==
    /\ wPc = "walking"
    /\ Top.deps # <<>>
    /\ Top.i <= Len(Top.deps[1])

\* the innermost call runs pkg.get_dependencies() and gets the list
WalkGetDependencies ==
    /\ wPc = "walking"
    /\ Top.deps = <<>>
    /\ MetaKey(Top.pkg.meta) \in DOMAIN wRepo
    /\ LET pkg == Resolved(Top.pkg, WalkLatest, WalkRelease)
       IN  /\ wStack' = WithTop([Top EXCEPT
                  !.pkg = pkg,
                  !.deps = <<GetDependencies(pkg, wRepo[MetaKey(pkg.meta)])>>])
           /\ wCalls' = Append(wCalls, pkg)
    /\ UNCHANGED <<wRepo, wSeed, wProcessed, wDefault, wPc, walkOthers>>

\* pkg.get_dependencies() raises: the repository has no such package. The
\* walker has no handler, so the exception ends every active call
WalkFetchErrorCaught ==
    /\ wPc = "walking"
    /\ Top.deps = <<>>
    /\ MetaKey(Top.pkg.meta) \notin DOMAIN wRepo
    /\ wStack' = WithTop([Top EXCEPT !.deps = <<<<>>>>])
    /\ wCalls' = Append(wCalls, Top.pkg)
    /\ UNCHANGED <<wRepo, wSeed, wProcessed, wDefault, wPc, walkOthers>>

WalkFetchError ==
    /\ wPc = "walking"
    /\ Top.deps = <<>>
    /\ MetaKey(Top.pkg.meta) \notin DOMAIN wRepo
    /\ wPc' = "fetch_error"
    /\ wCalls' = Append(wCalls, Top.pkg)
    /\ UNCHANGED <<wRepo, wSeed, wProcessed, wDefault, wStack, walkOthers>>

\* hash(dep) raises: the version of dep is symbolic and the repository has
\* no metadata for it
WalkResolveError ==
    /\ InLoop
    /\ ScopeEligible(CurDep)
    /\ GetVersionQueries(CurDep._version) = 1
    /\ MetaKey(CurDep.meta) \notin DOMAIN wRepo
    /\ wPc' = "fetch_error"
    /\ UNCHANGED <<wRepo, wSeed, wProcessed, wDefault, wStack, wCalls, walkOthers>>

CanResolve(dep) ==
    GetVersionQueries(dep._version) = 1 => MetaKey(dep.meta) \in DOMAIN wRepo

\* the condition of the if is false: the loop goes on to the next dependency
WalkSkip ==
    /\ InLoop
    /\ \/ ~ScopeEligible(CurDep)
       \/ /\ CanResolve(CurDep)
          /\ ~NotProcessed(Resolved(CurDep, WalkLatest, WalkRelease), CurSet)
    /\ wStack' = WithTop([Top EXCEPT !.i = Top.i + 1])
    /\ UNCHANGED <<wRepo, wSeed, wProcessed, wDefault, wPc, wCalls, walkOthers>>

\* the condition of the if is true: processed.add(dep), then
\* walk_dependencies(dep, indent + 1)
WalkRecurse ==
    /\ InLoop
    /\ ScopeEligible(CurDep)
    /\ CanResolve(CurDep)
    /\ LET dep == Resolved(CurDep, WalkLatest, WalkRelease)
       IN  /\ NotProcessed(dep, CurSet)
           /\ Len(wStack) < RecursionLimit
           /\ wProcessed' = IF Top.processed = "caller"
                            THEN Append(wProcessed, dep) ELSE wProcessed
           /\ wDefault' = IF Top.processed = "caller"
                          THEN wDefault ELSE Append(wDefault, dep)
           /\ wStack' = Append(wStack, Frame(dep, RecursiveProcessed(Top)))
    /\ UNCHANGED <<wRepo, wSeed, wPc, wCalls, walkOthers>>

\* as WalkRecurse, but the call exceeds the interpreter's recursion limit
WalkRecursionError ==
    /\ InLoop
    /\ ScopeEligible(CurDep)
    /\ CanResolve(CurDep)
    /\ LET dep == Resolved(CurDep, WalkLatest, WalkRelease)
       IN  /\ NotProcessed(dep, CurSet)
           /\ Len(wStack) >= RecursionLimit
           /\ wProcessed' = IF Top.processed = "caller"
                            THEN Append(wProcessed, dep) ELSE wProcessed
           /\ wDefault' = IF Top.processed = "caller"
                          THEN wDefault ELSE Append(wDefault, dep)
           /\ wPc' = "recursion_error"
    /\ UNCHANGED <<wRepo, wSeed, wStack, wCalls, walkOthers>>

\* the for loop of the innermost call is over: the call returns
WalkReturn ==
    /\ wPc = "walking"
    /\ Top.deps # <<>>
    /\ Top.i > Len(Top.deps[1])
    /\ IF Len(wStack) = 1
       THEN /\ wPc' = "returned"
            /\ UNCHANGED wStack
       ELSE /\ wStack' = LET rest == SubSeq(wStack, 1, Len(wStack) - 1)
                             caller == rest[Len(rest)]
                         IN  [rest EXCEPT ![Len(rest)] =
                                 [caller EXCEPT !.i = caller.i + 1]]
            /\ UNCHANGED wPc
    /\ UNCHANGED <<wRepo, wSeed, wProcessed, wDefault, wCalls, walkOthers>>

NextWalk ==
    \/ WalkGetDependencies
    \/ WalkFetchError
    \/ WalkResolveError
    \/ WalkSkip
    \/ WalkRecurse
    \/ WalkRecursionError
    \/ WalkReturn

\* the dependency elements of the descriptors of the modelled repositories
EntryG == DepEntry("g", "g", None, None, None)

EntryA == DepEntry("g", "a", Some("1"), None, None)

EntryARelease == DepEntry("${project.groupId}", "a", Some("release"), Some("Compile"), None)

EntryB == DepEntry("h", "b", Some("${project.version}"), None, Some("false"))

EntryAProvided == DepEntry("g", "a", Some("1"), Some("PROVIDED"), None)

EntryGOptional == DepEntry("g", "g", Some("1"), None, Some("True"))

EntryBTest == DepEntry("h", "b", Some("1"), Some("test"), None)

\* a package the repository does not have
EntryMissing == DepEntry("g", "missing", Some("1"), None, None)

WalkDependencyLists ==
    {<<>>, <<EntryMissing>>, <<EntryG>>, <<EntryA>>, <<EntryB>>, <<EntryARelease>>,
     <<EntryA, EntryARelease>>, <<EntryA, EntryB>>, <<EntryG, EntryA>>,
     <<EntryAProvided, EntryB>>, <<EntryGOptional, EntryA>>,
     <<EntryBTest, EntryG>>}

WalkMetas == {<<"g", "g">>, <<"g", "a">>, <<"h", "b">>}

WalkRoots ==
    {MavenPackage(MavenPackageMeta("g", "g", DEFAULT_REPO_BASE), Some("release")),
     MavenPackage(MavenPackageMeta("g", "a", DEFAULT_REPO_BASE), Some("1")),
     MavenPackage(MavenPackageMeta("h", "b", DEFAULT_REPO_BASE), Some("1"))}

\* the coordinate of a package that has been through _get_version
Coordinate(pkg) == <<pkg.meta.groupId, pkg.meta.artifactId, pkg._version>>

\* C1: during one walk, get_dependencies is called at most once on every
\* resolved coordinate (group, artifact, resolved version)
C1_ExpandedAtMostOnce ==
    \A i, j \in 1..Len(wCalls) :
        Coordinate(wCalls[i]) = Coordinate(wCalls[j]) => i = j

\* C2: the walk returns, provided every fetch returns: it is under way, has
\* returned, or was ended by a fetch that failed, and never ends in a
\* recursion that does not come back
C2_WalkReturns == wPc \in {"walking", "returned", "fetch_error"}

\* the call k of the walker is at a dependency that has later siblings
HasLaterSibling(k) ==
    /\ wStack[k].deps # <<>>
    /\ wStack[k].i < Len(wStack[k].deps[1])

\* C17: an error raised while a coordinate is resolved during the walk is not
\* caught by the walker: the get_dependencies call that failed is the last
\* one, the walk has ended with the error, and nothing is expanded after it
C17_ErrorAbortsWalk ==
    \A i \in 1..Len(wCalls) :
        (MetaKey(wCalls[i].meta) \notin DOMAIN wRepo)
            => (i = Len(wCalls) /\ wPc = "fetch_error")

\* the descriptor of a dependency of a dependency could not be fetched while
\* an outer call still had siblings to expand
C17_Witness ==
    /\ wPc = "fetch_error"
    /\ Len(wStack) >= 3
    /\ Len(wCalls) >= 3
    /\ MetaKey(wCalls[Len(wCalls)].meta) \notin DOMAIN wRepo
    /\ \E k \in 1..(Len(wStack) - 1) : HasLaterSibling(k)

\* C18: one visited set is shared by every recursion level: each dependency
\* that is expanded, at any depth, was added to the set the caller supplied
\* before its expansion, so the caller's set holds every package expanded,
\* and a package the caller seeded into the set is never expanded as a
\* dependency
C18_CallerSetHoldsExpanded ==
    \A i \in 2..Len(wCalls) :
        /\ \E k \in 1..Len(wProcessed) :
                Coordinate(wProcessed[k]) = Coordinate(wCalls[i])
        /\ \A k \in 1..Len(wSeed) :
                Coordinate(wSeed[k]) # Coordinate(wCalls[i])

\* C5: a dependency that get_dependencies returned is expanded if and only
\* if its scope is "compile" ignoring case, it is not optional, and no
\* package with its coordinate is in the visited set of the walk
C5_ExpandedIffEligible ==
    [][(InLoop /\ CanResolve(CurDep)) =>
          LET dep == Resolved(CurDep, WalkLatest, WalkRelease)
              expanded == Len(wStack') > Len(wStack) \/ wPc' = "recursion_error"
          IN  expanded <=>
                /\ Lower(CurDep._scope) = "compile"
                /\ ~CurDep._optional
                /\ ~\E k \in 1..Len(wProcessed) :
                       Coordinate(wProcessed[k]) = Coordinate(dep)]_vars

(***************************************************************************)
(* The caches: MavenPackageMeta._get_metadata, MavenPackage._get_pom and   *)
(* MavenPackage.cache_jar, over one cache directory and one remote.        *)
(***************************************************************************)
\* the number of calls of one run
MaxOps == 3

\* what a request to the remote gives: a body, or an exception
Ok(content) == <<"ok", content>>

\* "404" and "500": HTTPError with that status; "url": URLError
Err(kind) == <<"error", kind>>

\* the call made no request
NoFetch == <<"none", "">>

Contents == {"", "c1", "c2"}

\* what a request for an artifact gives
FetchOutcomes == {Ok(content) : content \in Contents}
                    \cup {Err("404"), Err("500"), Err("url")}

\* what a request for a document gives: fetch_url handles no error, so one
\* error stands for all of them
DocumentOutcomes == {Ok(content) : content \in Contents} \cup {Err("404")}

\* the postfix arguments main passes to cache_jar
Postfixes == {"", "-sources"}

\* os.path.exists(cache_path)
Exists(files, path) == path \in DOMAIN files

\* with open(cache_path, "w") as f: f.write(content)
FileWrite(files, path, content) ==
    [p \in DOMAIN files \cup {path} |-> IF p = path THEN content ELSE files[p]]

\* the content a file had when it first existed
FirstWrite(first, path, content) ==
    IF path \in DOMAIN first THEN first ELSE FileWrite(first, path, content)

\* ET.fromstring(text) raises ParseError on an empty text
Parses(text) == Len(text) > 0

\* where _get_metadata and _get_pom take the document from: the field, the
\* cache file, or the remote, in this order
DocumentSourceNoFile(cache, path, files) ==
    IF Len(cache) > 0 THEN "memory" ELSE "network"

DocumentSource(cache, path, files) ==
    IF Len(cache) > 0 THEN "memory"
    ELSE IF Exists(files, path) THEN "file"
    ELSE "network"

\* if len(content) > 0: the fetched document is kept and written
DocumentKept(outcome) == outcome[1] = "ok" /\ Len(outcome[2]) > 0

\* the field after the call
DocumentCache(cache, path, files, outcome) ==
    LET source == DocumentSource(cache, path, files)
    IN  IF source = "memory" THEN cache
        ELSE IF source = "file" THEN files[path]
        ELSE IF DocumentKept(outcome) THEN outcome[2]
        ELSE cache

\* the cache directory after the call
DocumentFiles(cache, path, files, outcome) ==
    IF DocumentSource(cache, path, files) = "network" /\ DocumentKept(outcome)
    THEN FileWrite(files, path, outcome[2])
    ELSE files

\* how the call ends: fetch_url raises, or ET.fromstring raises, or the
\* parsed document is returned
DocumentResult(cache, path, files, outcome) ==
    IF DocumentSource(cache, path, files) = "network" /\ outcome[1] = "error"
    THEN "raised"
    ELSE IF Parses(DocumentCache(cache, path, files, outcome)) THEN "ok"
    ELSE "raised"

\* a call either makes a request, which has an outcome, or makes none
OutcomeFits(fetches, outcomes, outcome) ==
    IF fetches THEN outcome \in outcomes ELSE outcome = NoFetch

MetadataPath(pkg) == get_metadata_cache_path(pkg.meta.groupId, pkg.meta.artifactId)

PomPath(pkg) ==
    get_pom_cache_path(pkg.meta.groupId, pkg.meta.artifactId, pkg._version[1])

JarPath(pkg, postfix) ==
    get_jar_cache_path(pkg.meta.groupId, pkg.meta.artifactId, pkg._version[1], postfix)

\* the cache paths of an object: get_metadata_cache_path, get_pom_cache_path
\* and get_jar_cache_path on its group, artifact and version
PathsOf(pkg) ==
    [metadata |-> MetadataPath(pkg),
     pom |-> PomPath(pkg),
     jar |-> [postfix \in Postfixes |-> JarPath(pkg, postfix)]]

Call(op, obj, postfix, source, outcome, wrote, result) ==
    [op |-> op, obj |-> obj, postfix |-> postfix, source |-> source,
     outcome |-> outcome, wrote |-> wrote, result |-> result]

\* meta._get_metadata(), as get_latest_version, get_release_version and
\* get_versions call it, on the meta of object i
GetMetadata(i, outcome) ==
    LET path == cPaths[i].metadata
        cache == cMetaCache[i]
        source == DocumentSource(cache, path, cFiles)
        files == DocumentFiles(cache, path, cFiles, outcome)
    IN  /\ cOps < MaxOps
        /\ OutcomeFits(source = "network", DocumentOutcomes, outcome)
        /\ cMetaCache' = [cMetaCache EXCEPT ![i] = DocumentCache(cache, path, cFiles, outcome)]
        /\ cFiles' = files
        /\ cFirst' = IF files = cFiles THEN cFirst
                     ELSE FirstWrite(cFirst, path, files[path])
        /\ cMetaFetched' = IF source = "network"
                           THEN [cMetaFetched EXCEPT ![i] = Append(@, outcome)]
                           ELSE cMetaFetched
        /\ cLast' = Call("_get_metadata", i, "", source, outcome, files # cFiles,
                         DocumentResult(cache, path, cFiles, outcome))
        /\ cOps' = cOps + 1
        /\ UNCHANGED <<cObjs, cPaths, cPomCache, cJarLog, cacheOthers>>

\* pkg._get_pom() on object i
GetPom(i, outcome) ==
    LET path == cPaths[i].pom
        cache == cPomCache[i]
        source == DocumentSource(cache, path, cFiles)
        files == DocumentFiles(cache, path, cFiles, outcome)
    IN  /\ cOps < MaxOps
        /\ OutcomeFits(source = "network", DocumentOutcomes, outcome)
        /\ cPomCache' = [cPomCache EXCEPT ![i] = DocumentCache(cache, path, cFiles, outcome)]
        /\ cFiles' = files
        /\ cFirst' = IF files = cFiles THEN cFirst
                     ELSE FirstWrite(cFirst, path, files[path])
        /\ cLast' = Call("_get_pom", i, "", source, outcome, files # cFiles,
                         DocumentResult(cache, path, cFiles, outcome))
        /\ cOps' = cOps + 1
        /\ UNCHANGED <<cObjs, cPaths, cMetaCache, cJarLog, cMetaFetched, cacheOthers>>

\* if not os_path.exists(cache_path): the artifact is requested
JarNeedsFetchAlways(path, files) == TRUE

JarNeedsFetch(path, files) == ~Exists(files, path)

\* except HTTPError: an HTTPError of any status is caught, a URLError is not
HTTPErrorCaught(outcome) == outcome[1] = "error" /\ outcome[2] \in {"404", "500"}

\* the cache directory after cache_jar: the fetched bytes are written
JarFilesUnwritten(path, files, outcome) == files

JarFiles(path, files, outcome) ==
    IF JarNeedsFetch(path, files) /\ outcome[1] = "ok"
    THEN FileWrite(files, path, outcome[2])
    ELSE files

\* what cache_jar returns, "raised" when it raises
JarResult(path, files, outcome) ==
    IF ~JarNeedsFetch(path, files) THEN "True"
    ELSE IF outcome[1] = "ok" THEN "True"
    ELSE IF HTTPErrorCaught(outcome) THEN "False"
    ELSE "raised"

JarCall(pkg, postfix, outcome, result) ==
    [coordinate |-> Coordinate(pkg), postfix |-> postfix,
     outcome |-> outcome, result |-> result]

\* pkg.cache_jar(postfix) on object i
CacheJar(i, postfix, outcome) ==
    LET path == cPaths[i].jar[postfix]
        fetches == JarNeedsFetch(path, cFiles)
        files == JarFiles(path, cFiles, outcome)
        result == JarResult(path, cFiles, outcome)
    IN  /\ cOps < MaxOps
        /\ OutcomeFits(fetches, FetchOutcomes, outcome)
        /\ cFiles' = files
        /\ cFirst' = IF files = cFiles THEN cFirst
                     ELSE FirstWrite(cFirst, path, files[path])
        /\ cJarLog' = Append(cJarLog, JarCall(cObjs[i], postfix, outcome, result))
        /\ cLast' = Call("cache_jar", i, postfix, IF fetches THEN "network" ELSE "file",
                         outcome, files # cFiles, result)
        /\ cOps' = cOps + 1
        /\ UNCHANGED <<cObjs, cPaths, cMetaCache, cPomCache, cMetaFetched, cacheOthers>>

AllOutcomes == FetchOutcomes \cup {NoFetch}

NextCache ==
    \/ \E i \in 1..2, outcome \in AllOutcomes : GetMetadata(i, outcome)
    \/ \E i \in 1..2, outcome \in AllOutcomes : GetPom(i, outcome)
    \/ \E i \in 1..2, postfix \in Postfixes, outcome \in AllOutcomes :
         CacheJar(i, postfix, outcome)

\* the objects of a run: two packages of the same artifact and version, of
\* the same group or of two groups
CacheObjects ==
    {<<MavenPackage(MavenPackageMeta("g", "a", DEFAULT_REPO_BASE), Some("1")),
       MavenPackage(MavenPackageMeta(g, "a", DEFAULT_REPO_BASE), Some("1"))>> :
        g \in {"g", "h"}}

\* the cache directory an earlier run left: empty, or with one document
InitialFiles ==
    {EmptyDict,
     [p \in {get_metadata_cache_path("g", "a")} |-> "c0"],
     [p \in {get_jar_cache_path("g", "a", "1", "")} |-> "c0"]}

\* C11: cache_jar returns False exactly when the remote answers "not found",
\* and then creates no cache file; every other error of the transport, an
\* HTTP error status other than not-found included, is raised
C11_FalseOnlyOnNotFound ==
    cLast.op = "cache_jar" =>
        /\ (cLast.result = "False") <=> (cLast.outcome = Err("404"))
        /\ (cLast.outcome = Err("404")) => ~cLast.wrote
        /\ (cLast.outcome \in {Err("500"), Err("url")}) => (cLast.result = "raised")

\* two calls of cache_jar for the same coordinate and postfix
SameRequest(first, second) ==
    /\ first.coordinate = second.coordinate
    /\ first.postfix = second.postfix

MetadataCall(i) ==
    /\ cOps' = cOps + 1
    /\ cLast'.op = "_get_metadata"
    /\ cLast'.obj = i

\* the order of the lookups: the field before the file, the file before
\* the remote, and the remote only when neither the field nor the file has
\* the document
LookupOrder(i) ==
    /\ (Len(cMetaCache[i]) > 0) => (cLast'.source = "memory")
    /\ (Len(cMetaCache[i]) = 0 /\ Exists(cFiles, cPaths[i].metadata))
            => (cLast'.source = "file")
    /\ (cLast'.source = "network")
            => (Len(cMetaCache[i]) = 0 /\ ~Exists(cFiles, cPaths[i].metadata))

\* C13: over the calls of the getters on one MavenPackageMeta object the
\* metadata document is fetched at most once, and only when neither the
\* in-memory copy nor the cache file exists; memory is consulted before the
\* file, the file before the network
C13_FetchedAtMostOnce ==
    [][\A i \in 1..2 :
         MetadataCall(i) =>
            /\ (cLast'.source = "network") => (cMetaFetched[i] = <<>>)
            /\ LookupOrder(i)]_vars

\* C13, amended: the metadata document is not fetched again after a fetch
\* that returned a non-empty document, and is fetched only when neither the
\* in-memory copy nor the cache file exists; memory is consulted before the
\* file, the file before the network
C13_NoFetchAfterDocument ==
    [][\A i \in 1..2 :
         MetadataCall(i) =>
            /\ (cLast'.source = "network")
                    => (\A k \in 1..Len(cMetaFetched[i]) : ~DocumentKept(cMetaFetched[i][k]))
            /\ LookupOrder(i)]_vars

\* an object fetched an empty document, fetched again, and then answered
\* from its in-memory copy
C13_Witness ==
    /\ cLast.op = "_get_metadata"
    /\ cLast.source = "memory"
    /\ cLast.result = "ok"
    /\ cMetaFetched[cLast.obj] \in {<<Ok(""), Ok("c1")>>, <<Err("404"), Ok("c2")>>}

\* C15: a cache file is never overwritten: after any sequence of metadata,
\* descriptor and cache_jar calls every file of the cache directory has the
\* content it had when it first existed
C15_NeverOverwritten ==
    /\ DOMAIN cFirst = DOMAIN cFiles
    /\ \A path \in DOMAIN cFiles : cFiles[path] = cFirst[path]

\* cache_jar wrote the jar of one package, and a later cache_jar call of a
\* package of another group, which has the same cache path, found the file
C15_Witness ==
    /\ cObjs[1].meta.groupId # cObjs[2].meta.groupId
    /\ Len(cJarLog) = 2
    /\ cJarLog[1].postfix = cJarLog[2].postfix
    /\ cJarLog[1].coordinate # cJarLog[2].coordinate
    /\ cJarLog[1].outcome \in {Ok("c1"), Ok("c2")}
    /\ cJarLog[2].outcome = NoFetch
    /\ cLast.op = "cache_jar"
    /\ cFiles[cPaths[cLast.obj].jar[cLast.postfix]] = cJarLog[1].outcome[2]

\* C16: a cache file is written only with content that was freshly fetched
\* and is not empty: for the metadata, the descriptor and the artifact, a
\* fetch that returns empty content creates no cache file
C16_WrittenOnlyNonEmpty ==
    /\ cLast.wrote => DocumentKept(cLast.outcome)
    /\ (cLast.outcome = Ok("")) => ~cLast.wrote
    /\ \A path \in DOMAIN cFiles : cFiles[path] # ""

(***************************************************************************)
(* Specifications.                                                         *)
(***************************************************************************)
\* the state at the start: the component that is run has its inputs drawn
\* from their sets; the other components stand still
InitOf(component) ==
    /\ IF component = "subst"
       THEN
            /\ sProps \in PropTables
            /\ sInput \in SubstTexts
            /\ sText = sInput
            /\ sPc = "loop"
            /\ sRound = 1
            /\ sFirst = ""
       ELSE
            /\ sProps = EmptyDict
            /\ sInput = ""
            /\ sText = ""
            /\ sPc = "done"
            /\ sRound = 1
            /\ sFirst = ""
    /\ IF component = "quote"
       THEN
            /\ qIn \in Strings(QuoteAlphabet, MaxQuoteLen)
            /\ qOp = "none"
            /\ qOut = ""
       ELSE
            /\ qIn = ""
            /\ qOp = "none"
            /\ qOut = ""
    /\ IF component = "path"
       THEN
            /\ pGroupId \in Strings(PathAlphabet, MaxPathNameLen)
            /\ pArtifactId \in Strings(PathAlphabet, MaxPathNameLen) \cup {"./.", ".:."}
            /\ pVersion \in {"1", "..", "./."}
            /\ pOp = "none"
            /\ pPath = ""
       ELSE
            /\ pGroupId = ""
            /\ pArtifactId = ""
            /\ pVersion = ""
            /\ pOp = "none"
            /\ pPath = ""
    /\ IF component = "eq"
       THEN
            /\ eA \in MetaObjects
            /\ eB \in MetaObjects
            /\ eEq = <<>>
            /\ eHash = <<>>
            /\ eVerA \in {Some("1"), Some("2")}
            /\ eVerB \in {Some("1"), Some("2")}
            /\ eRel = <<>>
       ELSE
            /\ eA = MavenPackageMeta("", "", "")
            /\ eB = MavenPackageMeta("", "", "")
            /\ eEq = <<>>
            /\ eHash = <<>>
            /\ eVerA = None
            /\ eVerB = None
            /\ eRel = <<>>
    /\ IF component = "ver"
       THEN
            /\ vArg \in VersionArgs
            /\ v_version = vArg
            /\ vUnsure = VersionIsUnsure(vArg)
            /\ vLatest \in MetadataAnswers
            /\ vRelease \in MetadataAnswers
            /\ vRead = <<>>
            /\ vQueries = 0
       ELSE
            /\ vArg = None
            /\ v_version = None
            /\ vUnsure = FALSE
            /\ vLatest = None
            /\ vRelease = None
            /\ vRead = <<>>
            /\ vQueries = 0
    /\ IF component = "deps"
       THEN
            /\ dSelf \in {MavenPackage(MavenPackageMeta(g, "a", DEFAULT_REPO_BASE), v) :
                            g \in {"g", "h"}, v \in {Some("1"), Some("release"), None}}
            /\ dRelease \in {Some("1"), Some("2")}
            /\ \E properties \in DepsProperties, e1 \in DepsEntries :
                 \E rest \in {<<>>, <<DepEntry("g", "b", None, None, None)>>} :
                    dPom = [properties |-> properties, dependencies |-> <<e1>> \o rest]
            /\ dDeps = <<>>
       ELSE
            /\ dSelf = MavenPackage(MavenPackageMeta("", "", ""), Some("0"))
            /\ dRelease = None
            /\ dPom = [properties |-> None, dependencies |-> <<>>]
            /\ dDeps = <<>>
    /\ IF component = "walk"
       THEN
            /\ wRepo \in [WalkMetas -> {[properties |-> None, dependencies |-> l] :
                                           l \in WalkDependencyLists}]
            \* the caller's set: empty, or seeded with the root as main does
            \* (adding the root to the set hashes it and so resolves it)
            /\ \E root \in WalkRoots :
                 \E seeded \in BOOLEAN :
                    LET pkg == IF seeded THEN Resolved(root, WalkLatest, WalkRelease)
                               ELSE root
                    IN  /\ wProcessed = IF seeded THEN <<pkg>> ELSE <<>>
                        /\ wSeed = wProcessed
                        /\ wStack = <<Frame(pkg, "caller")>>
            /\ wDefault = <<>>
            /\ wPc = "walking"
            /\ wCalls = <<>>
       ELSE
            /\ wRepo = <<>>
            /\ wProcessed = <<>>
            /\ wSeed = <<>>
            /\ wDefault = <<>>
            /\ wStack = <<>>
            /\ wPc = "returned"
            /\ wCalls = <<>>
    /\ IF component = "cache"
       THEN
            /\ cObjs \in CacheObjects
            /\ cPaths = [i \in 1..2 |-> PathsOf(cObjs[i])]
            /\ cFiles \in InitialFiles
            /\ cFirst = cFiles
            /\ cMetaCache = <<"", "">>
            /\ cPomCache = <<"", "">>
            /\ cLast = Call("none", 1, "", "none", NoFetch, FALSE, "none")
            /\ cJarLog = <<>>
            /\ cMetaFetched = <<<<>>, <<>>>>
            /\ cOps = 0
       ELSE
            /\ cObjs = <<>>
            /\ cPaths = <<>>
            /\ cFiles = EmptyDict
            /\ cFirst = EmptyDict
            /\ cMetaCache = <<>>
            /\ cPomCache = <<>>
            /\ cLast = Call("none", 1, "", "none", NoFetch, FALSE, "none")
            /\ cJarLog = <<>>
            /\ cMetaFetched = <<>>
            /\ cOps = 0

InitSubst == InitOf("subst")

InitQuote == InitOf("quote")

InitPath == InitOf("path")

InitEq == InitOf("eq")

InitVer == InitOf("ver")

InitDeps == InitOf("deps")

InitWalk == InitOf("walk")

InitCache == InitOf("cache")

SpecSubst == InitSubst /\ [][NextSubst]_vars

SpecQuote == InitQuote /\ [][NextQuote]_vars

SpecPath == InitPath /\ [][NextPath]_vars

SpecEq == InitEq /\ [][NextEq]_vars

SpecVer == InitVer /\ [][NextVer]_vars

SpecDeps == InitDeps /\ [][NextDeps]_vars

SpecWalk == InitWalk /\ [][NextWalk]_vars

SpecCache == InitCache /\ [][NextCache]_vars

FairSubst == SpecSubst /\ WF_vars(NextSubst)

====
